---- MODULE Spec2Model ----
(***************************************************************************)
(* A state-machine model of smart_logger.cpp: port auto-discovery,         *)
(* the session connection, the diagnostic monitor, calibration-mode        *)
(* selection, the write-and-verify register writers, the calibration       *)
(* sequence and the data acquisition loop.                                 *)
(*                                                                         *)
(* The program is single threaded; pc is the position of main (and of the  *)
(* function it is currently in).  Every libmodbus call is one step, and    *)
(* its outcome (rc == -1 or not, the words it returns) is chosen by the    *)
(* environment.                                                            *)
(***************************************************************************)
EXTENDS Integers, Sequences, FiniteSets, TLC

\* ------------------------------------------------------------------ bounds
\* The source scans /dev/ttyS0../dev/ttyS20 and five USB/ACM numbers; the
\* model keeps the loops and scales the two ranges down.
TtySLast == 0
UsbCount == 2
\* Iterations of the diagnostic monitor and of the acquisition loop that the
\* model follows (both loops are unbounded in the source).
MaxDiag == 1
MaxCycles == 2
\* Longest command line (arguments after the program name).
MaxArgs == 2

\* ------------------------------------------------- calibration constants
CALIBRATION_REG_MODE == 13
CALIBRATION_REG_COEFF == 28
CAL_MODE_1_VALUE == 2
CAL_MODE_2_VALUE == 3
CAL_MODE_NONE == 0
CAL_MODE_1 == 1
CAL_MODE_2 == 2
CAL_MODE_3 == 3
\* Register 16 and the value 190 written by mode 3.
TEST_REG_K == 16
TEST_K_VALUE == 190
\* Measurement registers.
REG_TEMP == 60
REG_RAW_EC == 45
REG_SENSOR_EC == 41

\* ----------------------------------------------------------- candidates
\* find_sensor_port builds the list: every ttyS number first, then for each
\* USB number the ttyUSB name followed by the ttyACM name.
TtySPorts == [k \in 1..(TtySLast + 1) |-> <<"/dev/ttyS", k - 1>>]

\* The USB candidates listed one scheme after the other: every ttyUSB name,
\* then every ttyACM name.
UsbThenAcmPorts ==
  [k \in 1..(2 * UsbCount) |->
     IF k <= UsbCount THEN <<"/dev/ttyUSB", k - 1>>
                      ELSE <<"/dev/ttyACM", k - 1 - UsbCount>>]

UsbAcmPorts ==
  [k \in 1..(2 * UsbCount) |->
     IF k % 2 = 1 THEN <<"/dev/ttyUSB", (k - 1) \div 2>>
                  ELSE <<"/dev/ttyACM", (k - 1) \div 2>>]

Ports == TtySPorts \o UsbAcmPorts

NumPorts == Len(Ports)

\* The empty string returned when nothing answers.
NoPort == <<>>

\* Connection handles: one per probe, one for the session of main.
ProbeCtx(k) == <<"probe", k>>
SessionCtx == <<"session", 0>>

VARIABLES
  pc,          \* position of the program
  i,           \* find_sensor_port: index of the candidate under test (1-based)
  alloc,       \* contexts created by modbus_new_rtu and not yet freed
  open,        \* contexts connected by modbus_connect and not yet closed
  test_reg,    \* find_sensor_port: the handshake buffer
  port,        \* main: the discovered port
  dlog,        \* history: the open / read / close events of discovery
  exitCode,    \* exit status of the process once pc = "exit"
  diagLoops,   \* display_sensor_diagnostics: loop_count
  cal_mode,    \* main: the calibration mode selected
  success,     \* execute_calibration: success
  frame,       \* arguments of the write_*_register call in progress
  ret,         \* value returned by the last write_*_register call
  calLog,      \* history: register writes and reads issued by calibration
  wres,        \* history: outcome of every write_*_register call
  msgs,        \* history: verdicts printed by execute_calibration and main
  loop_count,  \* main: cycle counter of the acquisition loop
  reg_data,    \* main: the register buffer shared by the three reads
  hex_temp,    \* main: hex string of the temperature words
  hex_raw_ec,  \* main: hex string of the raw EC words
  temp,        \* main: temperature of the cycle (bit pattern of the float)
  raw_ec,      \* main: raw EC of the cycle
  sensor_ec,   \* main: sensor EC of the cycle
  sampleReads, \* history: register reads issued by the acquisition loop
  emitted,     \* history: number of records emitted so far
  dash,        \* the last record handed to display_teacher_dashboard
  csv,         \* the last row appended to ec_data_log.csv
  cycleLog,    \* history: the register reads of the cycle in progress
  arg,         \* input of the pure function applied on its own
  res          \* what the function made of arg

discVars == <<i, alloc, open, test_reg, port, dlog>>
diagVars == <<diagLoops>>
calVars == <<cal_mode, success, frame, ret, calLog, wres, msgs>>
loopVars == <<loop_count, reg_data, hex_temp, hex_raw_ec, temp, raw_ec, sensor_ec,
              sampleReads, emitted, dash, csv, cycleLog>>

\* The argument and the result of a pure function applied on its own.
pureVars == <<arg, res>>
vars == <<pc, exitCode, discVars, diagVars, calVars, loopVars, pureVars>>

\* ------------------------------------------------------ float registers
\* A float is kept as its 32-bit IEEE-754 pattern, written as the four
\* bytes <<A, B, C, D>> from the most significant to the least significant
\* (the pattern is A * 2^24 + B * 2^16 + C * 2^8 + D).  A register word is a
\* number in 0..65535.
\* modbus_get_float_abcd reading the words in the order CDAB:
\* i = (src[1] << 16) | src[0].
modbus_get_float_cdab(src) ==
  <<src[2] \div 256, src[2] % 256, src[1] \div 256, src[1] % 256>>

\* modbus_get_float_abcd: i = (src[0] << 16) | src[1], reinterpreted.
modbus_get_float_abcd(src) ==
  <<src[1] \div 256, src[1] % 256, src[2] \div 256, src[2] % 256>>

\* modbus_set_float_abcd (libmodbus), as the float codec is specified:
\* dest[0] = the high 16 bits of the pattern, dest[1] = the low 16 bits.
modbus_set_float_abcd(f) == <<f[1] * 256 + f[2], f[3] * 256 + f[4]>>

\* 12880.0f = 0x46494000.
CALIBRATION_COEFF_VALUE == <<70, 73, 64, 0>>

\* 0.0 as a float / double.
FloatZero == <<0, 0, 0, 0>>

Sign(f) == f[1] \div 128
Expo(f) == (f[1] % 128) * 2 + f[2] \div 128
Frac(f) == (f[2] % 128) * 65536 + f[3] * 256 + f[4]
IsNanInf(f) == Expo(f) = 255
IsZero(f) == Expo(f) = 0 /\ Frac(f) = 0
\* |f| = Mant(f) * 2^(EffExp(f) - 150)
Mant(f) == IF Expo(f) = 0 THEN Frac(f) ELSE 8388608 + Frac(f)
EffExp(f) == IF Expo(f) = 0 THEN 1 ELSE Expo(f)

Pow2(n) == IF n <= 0 THEN 1 ELSE 2 ^ n

\* |a| >= |b|
MagGeq(a, b) ==
  \/ EffExp(a) > EffExp(b)
  \/ EffExp(a) = EffExp(b) /\ Mant(a) >= Mant(b)

\* fabs(read_back - value) < 0.001f, with 0.001f = 8589935 * 2^-33.
\* Exact for the operands the model feeds it: both zero, or the larger of
\* the two at least 2^-8 in magnitude (biased exponent >= 119).  Operands of
\* opposite sign or two binades apart then differ by more than 2^-9; in the
\* same or adjacent binades the difference d * 2^(e - 150) is exact.
FloatNear(a, b) ==
  IF IsNanInf(a) \/ IsNanInf(b) THEN FALSE
  ELSE IF IsZero(a) /\ IsZero(b) THEN TRUE
  ELSE
    LET hi == IF MagGeq(a, b) THEN a ELSE b
        lo == IF MagGeq(a, b) THEN b ELSE a
        gap == EffExp(hi) - EffExp(lo)
    IN  IF Sign(a) # Sign(b) \/ gap >= 2 THEN FALSE
        ELSE
          LET d == IF gap = 0 THEN Mant(hi) - Mant(lo)
                              ELSE 2 * Mant(hi) - Mant(lo)
              s == EffExp(lo) - 117
          IN  d = 0 \/ (s <= 23 /\ d <= 8589934 \div Pow2(s))

\* ------------------------------------------------------------ hex string
HexDigits ==
  <<"0", "1", "2", "3", "4", "5", "6", "7",
    "8", "9", "A", "B", "C", "D", "E", "F">>

\* setw(4), setfill('0'), uppercase hex of one 16-bit word.
Hex4(w) ==
  <<HexDigits[(w \div 4096) + 1], HexDigits[((w \div 256) % 16) + 1],
    HexDigits[((w \div 16) % 16) + 1], HexDigits[(w % 16) + 1]>>

to_hex_string(reg_high, reg_low) == Hex4(reg_high) \o Hex4(reg_low)

\* ---------------------------------------------------------- compensation
IsNan(f) == Expo(f) = 255 /\ Frac(f) # 0

\* a <= b as IEEE-754 values.
FloatLeq(a, b) ==
  IF IsNan(a) \/ IsNan(b) THEN FALSE
  ELSE IF IsZero(a) /\ IsZero(b) THEN TRUE
  ELSE IF Sign(a) # Sign(b) THEN Sign(a) = 1
  ELSE IF Sign(a) = 0 THEN MagGeq(b, a)
  ELSE MagGeq(a, b)

\* 5.0f, 10.0f, 15.0f, 25.0f, 30.0f.
F5 == <<64, 160, 0, 0>>
F10 == <<65, 32, 0, 0>>
F15 == <<65, 112, 0, 0>>
F25 == <<65, 200, 0, 0>>
F30 == <<65, 240, 0, 0>>

\* get_dynamic_k with < in place of <=: a threshold falls in the upper band.
get_dynamic_k_strict(t) ==
  LET Lt(a, b) == FloatLeq(a, b) /\ ~FloatLeq(b, a)
  IN  IF Lt(t, F5) THEN 180
      ELSE IF Lt(t, F10) THEN 184
      ELSE IF Lt(t, F15) THEN 190
      ELSE IF Lt(t, F25) THEN 190
      ELSE IF Lt(t, F30) THEN 192
      ELSE 194

\* get_dynamic_k, in units of 0.0001.
get_dynamic_k(t) ==
  IF FloatLeq(t, F5) THEN 180
  ELSE IF FloatLeq(t, F10) THEN 184
  ELSE IF FloatLeq(t, F15) THEN 190
  ELSE IF FloatLeq(t, F25) THEN 190
  ELSE IF FloatLeq(t, F30) THEN 192
  ELSE 194

\* Exact value of a finite float as a fraction [n, d], d a power of two.
RECURSIVE Halve(_, _)
Halve(m, sh) ==
  IF sh = 0 \/ m % 2 # 0 THEN [m |-> m, sh |-> sh] ELSE Halve(m \div 2, sh - 1)

FloatToRat(f) ==
  LET e == EffExp(f) - 150
      sg == IF Sign(f) = 1 THEN -1 ELSE 1
  IN  IF Mant(f) = 0 THEN [n |-> 0, d |-> 1]
      ELSE IF e >= 0 THEN [n |-> sg * Mant(f) * Pow2(e), d |-> 1]
      ELSE LET h == Halve(Mant(f), -e)
           IN  [n |-> sg * h.m, d |-> Pow2(h.sh)]

\* A fraction with a positive denominator; a zero denominator is kept as
\* it is (the quotient of the source is then infinite or NaN).
RatNorm(n, d) == IF d < 0 THEN [n |-> -n, d |-> -d] ELSE [n |-> n, d |-> d]

\* calculate_smart_ec: raw_ec / (1.0 + k * (temp - 25.0)), in exact
\* arithmetic on finite operands.  With k = K / 10000, temp = tn / td and
\* raw_ec = rn / rd the quotient is
\*   (rn * 10000 * td) / (rd * (10000 * td + K * (tn - 25 * td))).
Denominator(t) ==
  LET tr == FloatToRat(t)
  IN  RatNorm(10000 * tr.d + get_dynamic_k(t) * (tr.n - 25 * tr.d), 10000 * tr.d)

calculate_smart_ec(raw, t) ==
  LET r == FloatToRat(raw)
      dn == Denominator(t)
  IN  RatNorm(r.n * dn.d, r.d * dn.n)

\* a - b on fractions.
RatSub(a, b) == RatNorm(a.n * b.d - b.n * a.d, a.d * b.d)

\* ------------------------------------------------- environment's answers
Uninit == <<"uninit">>
\* Words the handshake read of registers 60-61 may deliver.
HandshakeWords == {<<0, 0>>, <<16840, 0>>}
\* Words a read-back of one integer register may deliver: the value that
\* was written, or another one.
IntReadBacks(value) == {value, value + 1}
\* Words a read-back of registers 28-29 may deliver: 12880.0, its two
\* successors in float order, and 12.88f (0x414E147B).
FloatReadBacks ==
  {<<17993, 16384>>, <<17993, 16385>>, <<17993, 16386>>, <<16718, 5243>>}
\* Words the acquisition loop may read from 60-61 (25.0f, -40.0f), from
\* 45-46 (12.0f, 13.0f) and from 41-42 (12.0f).
TempWords == {<<16840, 0>>, <<49696, 0>>}
RawEcWords == {<<16704, 0>>, <<16720, 0>>}
SensorEcWords == {<<16704, 0>>}

\* --------------------------------------------------------- command line
ArgTokens == {"--mode", "--help", "-h", "0", "1", "2", "3", "9"}

ArgLines == UNION {[1..n -> ArgTokens] : n \in 0..MaxArgs}

\* std::atoi of an argument: the number, or 0 when it is not one.
Atoi(tok) ==
  CASE tok = "1" -> 1
    [] tok = "2" -> 2
    [] tok = "3" -> 3
    [] tok = "9" -> 9
    [] OTHER -> 0

\* Values std::cin >> choice may leave in choice.
Choices == -1..4

\* The argument loop of get_calibration_mode, from argument k on.
RECURSIVE ScanArgs(_, _)
ScanArgs(argv, k) ==
  IF k > Len(argv) THEN [kind |-> "interactive", mode |-> CAL_MODE_NONE]
  ELSE IF argv[k] = "--mode" /\ k + 1 <= Len(argv)
          /\ Atoi(argv[k + 1]) >= 0 /\ Atoi(argv[k + 1]) <= 3
    THEN [kind |-> "mode", mode |-> Atoi(argv[k + 1])]
  ELSE IF argv[k] = "--help" \/ argv[k] = "-h"
    THEN [kind |-> "exit", mode |-> CAL_MODE_NONE]
  ELSE ScanArgs(argv, k + 1)

\* The interactive selection of get_calibration_mode.
InteractiveMode(choice) ==
  IF choice >= 0 /\ choice <= 3 THEN choice ELSE CAL_MODE_NONE

\* ------------------------------------------------------------------ init
NoFrame == [addr |-> 0, data |-> <<>>, step |-> 0]
NoRecord == <<>>

\* Everything but the position, as it is before main has done anything.
Idle ==
  /\ exitCode = 0
  /\ i = 1
  /\ alloc = {}
  /\ open = {}
  /\ test_reg = Uninit
  /\ port = NoPort
  /\ dlog = <<>>
  /\ diagLoops = 0
  /\ cal_mode = CAL_MODE_NONE
  /\ success = TRUE
  /\ frame = NoFrame
  /\ ret = TRUE
  /\ calLog = <<>>
  /\ wres = <<>>
  /\ msgs = <<>>
  /\ loop_count = 0
  /\ reg_data = Uninit
  /\ hex_temp = <<>>
  /\ hex_raw_ec = <<>>
  /\ temp = FloatZero
  /\ raw_ec = FloatZero
  /\ sensor_ec = FloatZero
  /\ sampleReads = 0
  /\ emitted = 0
  /\ dash = NoRecord
  /\ csv = NoRecord
  /\ cycleLog = <<>>

Init ==
  /\ pc = "d_new"
  /\ Idle
  /\ arg = <<>>
  /\ res = <<>>

\* ------------------------------------------------------------ discovery
\* An event of discovery; a read carries its address, width and the words
\* delivered.
DiscEvent(ev, cand, ok, addr, data) ==
  [ev |-> ev, cand |-> cand, ok |-> ok, addr |-> addr, data |-> data]

\* Lines 82-83: create the context of candidate i; NULL skips the candidate.
ProbeNew ==
  /\ pc = "d_new"
  /\ i <= NumPorts
  /\ \E ok \in BOOLEAN :
       IF ok
         THEN /\ alloc' = alloc \cup {ProbeCtx(i)}
              /\ pc' = "d_connect"
              /\ i' = i
         ELSE /\ alloc' = alloc
              /\ pc' = "d_new"
              /\ i' = i + 1
  /\ UNCHANGED <<open, test_reg, port, dlog>>
  /\ UNCHANGED <<exitCode, diagVars, calVars, loopVars>>
  /\ UNCHANGED pureVars

\* Line 88: modbus_connect.
ProbeConnect ==
  /\ pc = "d_connect"
  /\ \E ok \in BOOLEAN :
       IF ok
         THEN /\ open' = open \cup {ProbeCtx(i)}
              /\ dlog' = Append(dlog, DiscEvent("open", i, TRUE, 0, <<>>))
              /\ pc' = "d_read"
         ELSE /\ open' = open
              /\ dlog' = dlog
              /\ pc' = "d_free"
  /\ UNCHANGED <<i, alloc, test_reg, port>>
  /\ UNCHANGED <<exitCode, diagVars, calVars, loopVars>>
  /\ UNCHANGED pureVars

\* ProbeRead accepting the answer only when the words read are not zero.
ProbeReadContent ==
  /\ pc = "d_read"
  /\ \E ok \in BOOLEAN, w \in HandshakeWords :
       /\ dlog' = Append(dlog,
            DiscEvent("read", i, ok, REG_TEMP, IF ok THEN w ELSE <<>>))
       /\ IF ok /\ w # <<0, 0>>
            THEN /\ test_reg' = w
                 /\ pc' = "d_found"
            ELSE /\ test_reg' = IF ok THEN w ELSE test_reg
                 /\ pc' = "d_close"
  /\ UNCHANGED <<i, alloc, open, port>>
  /\ UNCHANGED <<exitCode, diagVars, calVars, loopVars>>
  /\ UNCHANGED pureVars

\* Lines 90-92: the handshake read of registers 60-61.
ProbeRead ==
  /\ pc = "d_read"
  /\ \E ok \in BOOLEAN, w \in HandshakeWords :
       /\ dlog' = Append(dlog,
            DiscEvent("read", i, ok, REG_TEMP, IF ok THEN w ELSE <<>>))
       /\ IF ok
            THEN /\ test_reg' = w
                 /\ pc' = "d_found"
            ELSE /\ test_reg' = test_reg
                 /\ pc' = "d_close"
  /\ UNCHANGED <<i, alloc, open, port>>
  /\ UNCHANGED <<exitCode, diagVars, calVars, loopVars>>
  /\ UNCHANGED pureVars

\* ProbeFoundClose without the modbus_close of line 94.
ProbeFoundNoClose ==
  /\ pc = "d_found"
  /\ pc' = "d_return"
  /\ UNCHANGED <<i, alloc, open, test_reg, port, dlog>>
  /\ UNCHANGED <<exitCode, diagVars, calVars, loopVars>>
  /\ UNCHANGED pureVars

\* ProbeFoundClose without the return of line 96: the scan goes on.
ProbeFoundCloseNoReturn ==
  /\ pc = "d_found"
  /\ open' = open \ {ProbeCtx(i)}
  /\ dlog' = Append(dlog, DiscEvent("close", i, TRUE, 0, <<>>))
  /\ pc' = "d_free"
  /\ UNCHANGED <<i, alloc, test_reg, port>>
  /\ UNCHANGED <<exitCode, diagVars, calVars, loopVars>>
  /\ UNCHANGED pureVars

\* Line 94: close the probe that answered.
ProbeFoundClose ==
  /\ pc = "d_found"
  /\ open' = open \ {ProbeCtx(i)}
  /\ dlog' = Append(dlog, DiscEvent("close", i, TRUE, 0, <<>>))
  /\ pc' = "d_return"
  /\ UNCHANGED <<i, alloc, test_reg, port>>
  /\ UNCHANGED <<exitCode, diagVars, calVars, loopVars>>
  /\ UNCHANGED pureVars

\* Lines 95-96 and 611: free the context and return the port to main.
ProbeReturn ==
  /\ pc = "d_return"
  /\ alloc' = alloc \ {ProbeCtx(i)}
  /\ port' = Ports[i]
  /\ test_reg' = Uninit
  /\ pc' = "m_check"
  /\ UNCHANGED <<i, open, dlog>>
  /\ UNCHANGED <<exitCode, diagVars, calVars, loopVars>>
  /\ UNCHANGED pureVars

\* ProbeClose without the modbus_close of line 98.
ProbeCloseLeak ==
  /\ pc = "d_close"
  /\ pc' = "d_free"
  /\ UNCHANGED <<i, alloc, open, test_reg, port, dlog>>
  /\ UNCHANGED <<exitCode, diagVars, calVars, loopVars>>
  /\ UNCHANGED pureVars

\* Line 98: close a probe whose handshake failed.
ProbeClose ==
  /\ pc = "d_close"
  /\ open' = open \ {ProbeCtx(i)}
  /\ dlog' = Append(dlog, DiscEvent("close", i, TRUE, 0, <<>>))
  /\ pc' = "d_free"
  /\ UNCHANGED <<i, alloc, test_reg, port>>
  /\ UNCHANGED <<exitCode, diagVars, calVars, loopVars>>
  /\ UNCHANGED pureVars

\* Line 100: free the context and move to the next candidate.
ProbeFree ==
  /\ pc = "d_free"
  /\ alloc' = alloc \ {ProbeCtx(i)}
  /\ i' = i + 1
  /\ pc' = "d_new"
  /\ UNCHANGED <<open, test_reg, port, dlog>>
  /\ UNCHANGED <<exitCode, diagVars, calVars, loopVars>>
  /\ UNCHANGED pureVars

\* Lines 103 and 611: the list is exhausted, "" is returned.
ProbeNotFound ==
  /\ pc = "d_new"
  /\ i > NumPorts
  /\ port' = NoPort
  /\ test_reg' = Uninit
  /\ pc' = "m_check"
  /\ UNCHANGED <<i, alloc, open, dlog>>
  /\ UNCHANGED <<exitCode, diagVars, calVars, loopVars>>
  /\ UNCHANGED pureVars

find_sensor_port ==
  \/ ProbeNew
  \/ ProbeConnect
  \/ ProbeRead
  \/ ProbeFoundClose
  \/ ProbeReturn
  \/ ProbeClose
  \/ ProbeFree
  \/ ProbeNotFound

\* ------------------------------------------------ main: session connection
\* MainNotFound without the return of line 616: main goes on to the session.
MainNotFoundContinue ==
  /\ pc = "m_check"
  /\ port = NoPort
  /\ alloc' = alloc \cup {SessionCtx}
  /\ pc' = "m_connect"
  /\ UNCHANGED <<i, open, test_reg, port, dlog>>
  /\ UNCHANGED <<exitCode, diagVars, calVars, loopVars>>
  /\ UNCHANGED pureVars

\* Lines 613-617: no sensor, the run ends.
MainNotFound ==
  /\ pc = "m_check"
  /\ port = NoPort
  /\ pc' = "exit"
  /\ exitCode' = -1
  /\ UNCHANGED <<discVars, diagVars, calVars, loopVars>>
  /\ UNCHANGED pureVars

\* Lines 620-627: create the session context.  The frame of
\* find_sensor_port is gone by now: its loop index and the history of its
\* probes are dropped here.
MainNew ==
  /\ pc = "m_check"
  /\ port # NoPort
  /\ \E ok \in BOOLEAN :
       IF ok
         THEN /\ alloc' = alloc \cup {SessionCtx}
              /\ pc' = "m_connect"
              /\ exitCode' = exitCode
         ELSE /\ alloc' = alloc
              /\ pc' = "exit"
              /\ exitCode' = -1
  /\ i' = 0
  /\ dlog' = <<>>
  /\ UNCHANGED <<open, test_reg, port>>
  /\ UNCHANGED <<diagVars, calVars, loopVars>>
  /\ UNCHANGED pureVars

\* Lines 629-633: connect the session; on failure free it and end the run.
MainConnect ==
  /\ pc = "m_connect"
  /\ \E ok \in BOOLEAN :
       IF ok
         THEN /\ open' = open \cup {SessionCtx}
              /\ alloc' = alloc
              /\ pc' = "diag"
              /\ exitCode' = exitCode
         ELSE /\ open' = open
              /\ alloc' = alloc \ {SessionCtx}
              /\ pc' = "exit"
              /\ exitCode' = -1
  /\ UNCHANGED <<i, test_reg, port, dlog>>
  /\ UNCHANGED <<diagVars, calVars, loopVars>>
  /\ UNCHANGED pureVars

\* ---------------------------------------------------- diagnostic monitor
\* Lines 382-448: one pass of the loop of display_sensor_diagnostics.  It
\* issues five register reads (1, 2, 16, 13, 28-29) whose results are only
\* printed.
DiagPass ==
  /\ pc = "diag"
  /\ diagLoops < MaxDiag
  /\ diagLoops' = diagLoops + 1
  /\ pc' = "diag_key"
  /\ UNCHANGED <<exitCode, discVars, calVars, loopVars>>
  /\ UNCHANGED pureVars

\* Lines 450-464: ENTER or space leaves the monitor, anything else repeats it.
DiagKey ==
  /\ pc = "diag_key"
  /\ \E key \in BOOLEAN :
       IF key
         THEN /\ pc' = "getmode"
              /\ diagLoops' = 0
         ELSE /\ pc' = "diag"
              /\ diagLoops' = diagLoops
  /\ UNCHANGED <<exitCode, discVars, calVars, loopVars>>
  /\ UNCHANGED pureVars

\* ------------------------------------------------------- mode selection
\* get_calibration_mode: the mode of the command line, exit(0) on --help,
\* the interactive choice otherwise.
GetMode ==
  /\ pc = "getmode"
  /\ \E argv \in ArgLines, choice \in Choices :
       LET r == ScanArgs(argv, 1) IN
       IF r.kind = "exit"
         THEN /\ pc' = "exit"
              /\ exitCode' = 0
              /\ cal_mode' = cal_mode
         ELSE /\ pc' = "cal_entry"
              /\ exitCode' = exitCode
              /\ cal_mode' = IF r.kind = "mode" THEN r.mode
                             ELSE InteractiveMode(choice)
  /\ UNCHANGED <<success, frame, ret, calLog, wres, msgs>>
  /\ UNCHANGED <<discVars, diagVars, loopVars>>
  /\ UNCHANGED pureVars

\* ------------------------------------------------- write_*_register
IoEvent(op, addr, n, data, ok) ==
  [op |-> op, addr |-> addr, n |-> n, data |-> data, ok |-> ok]

WriteResult(addr, accepted, verify) ==
  [addr |-> addr, accepted |-> accepted, verify |-> verify]

\* WriteIntRaw without the return false of line 157: the read-back follows
\* a failed write too.
WriteIntRawNoReturn ==
  /\ pc = "wi_write"
  /\ \E ok \in BOOLEAN :
       calLog' = Append(calLog, IoEvent("write", frame.addr, 1, frame.data, ok))
  /\ pc' = "wi_verify"
  /\ UNCHANGED <<cal_mode, success, frame, ret, wres, msgs>>
  /\ UNCHANGED <<exitCode, discVars, diagVars, loopVars>>
  /\ UNCHANGED pureVars

\* Lines 153-158: the raw write of one register.
WriteIntRaw ==
  /\ pc = "wi_write"
  /\ \E ok \in BOOLEAN :
       /\ calLog' = Append(calLog, IoEvent("write", frame.addr, 1, frame.data, ok))
       /\ IF ok
            THEN /\ pc' = "wi_verify"
                 /\ UNCHANGED <<ret, wres>>
            ELSE /\ pc' = "cal_after"
                 /\ ret' = FALSE
                 /\ wres' = Append(wres, WriteResult(frame.addr, FALSE, "none"))
  /\ UNCHANGED <<cal_mode, success, frame, msgs>>
  /\ UNCHANGED <<exitCode, discVars, diagVars, loopVars>>
  /\ UNCHANGED pureVars

\* WriteIntVerify writing the register again when the read-back does not
\* confirm the value.
WriteIntVerifyRetries ==
  /\ pc = "wi_verify"
  /\ \E ok \in BOOLEAN, verify_value \in IntReadBacks(frame.data[1]) :
       /\ calLog' = Append(calLog,
            IoEvent("read", frame.addr, 1, IF ok THEN <<verify_value>> ELSE <<>>, ok))
       /\ wres' = Append(wres, WriteResult(frame.addr, TRUE,
            IF ~ok THEN "unreadable"
            ELSE IF verify_value = frame.data[1] THEN "ok" ELSE "differs"))
       /\ pc' = IF ok /\ verify_value = frame.data[1] THEN "cal_after" ELSE "wi_write"
  /\ ret' = TRUE
  /\ UNCHANGED <<cal_mode, success, frame, msgs>>
  /\ UNCHANGED <<exitCode, discVars, diagVars, loopVars>>
  /\ UNCHANGED pureVars

\* Lines 160-177: the read-back, compared for equality; always returns true.
WriteIntVerify ==
  /\ pc = "wi_verify"
  /\ \E ok \in BOOLEAN, verify_value \in IntReadBacks(frame.data[1]) :
       /\ calLog' = Append(calLog,
            IoEvent("read", frame.addr, 1, IF ok THEN <<verify_value>> ELSE <<>>, ok))
       /\ wres' = Append(wres, WriteResult(frame.addr, TRUE,
            IF ~ok THEN "unreadable"
            ELSE IF verify_value = frame.data[1] THEN "ok" ELSE "differs"))
  /\ ret' = TRUE
  /\ pc' = "cal_after"
  /\ UNCHANGED <<cal_mode, success, frame, msgs>>
  /\ UNCHANGED <<exitCode, discVars, diagVars, loopVars>>
  /\ UNCHANGED pureVars

\* Lines 187-205: encode the float and write the two registers.
WriteFloatRaw ==
  /\ pc = "wf_write"
  /\ \E ok \in BOOLEAN :
       /\ calLog' = Append(calLog,
            IoEvent("write", frame.addr, 2, modbus_set_float_abcd(frame.data), ok))
       /\ IF ok
            THEN /\ pc' = "wf_verify"
                 /\ UNCHANGED <<ret, wres>>
            ELSE /\ pc' = "cal_after"
                 /\ ret' = FALSE
                 /\ wres' = Append(wres, WriteResult(frame.addr, FALSE, "none"))
  /\ UNCHANGED <<cal_mode, success, frame, msgs>>
  /\ UNCHANGED <<exitCode, discVars, diagVars, loopVars>>
  /\ UNCHANGED pureVars

\* WriteFloatVerify returning false when the read-back differs.
WriteFloatVerifyStrict ==
  /\ pc = "wf_verify"
  /\ \E ok \in BOOLEAN, verify_data \in FloatReadBacks :
       LET near == FloatNear(modbus_get_float_abcd(verify_data), frame.data) IN
       /\ calLog' = Append(calLog,
            IoEvent("read", frame.addr, 2, IF ok THEN verify_data ELSE <<>>, ok))
       /\ wres' = Append(wres, WriteResult(frame.addr, ~ok \/ near,
            IF ~ok THEN "unreadable" ELSE IF near THEN "ok" ELSE "differs"))
       /\ ret' = (~ok \/ near)
  /\ pc' = "cal_after"
  /\ UNCHANGED <<cal_mode, success, frame, msgs>>
  /\ UNCHANGED <<exitCode, discVars, diagVars, loopVars>>
  /\ UNCHANGED pureVars

\* WriteFloatVerify returning false when the read-back itself fails.
WriteFloatVerifyUnreadableFails ==
  /\ pc = "wf_verify"
  /\ \E ok \in BOOLEAN, verify_data \in FloatReadBacks :
       /\ calLog' = Append(calLog,
            IoEvent("read", frame.addr, 2, IF ok THEN verify_data ELSE <<>>, ok))
       /\ wres' = Append(wres, WriteResult(frame.addr, ok,
            IF ~ok THEN "unreadable"
            ELSE IF FloatNear(modbus_get_float_abcd(verify_data), frame.data)
                   THEN "ok" ELSE "differs"))
       /\ ret' = ok
  /\ pc' = "cal_after"
  /\ UNCHANGED <<cal_mode, success, frame, msgs>>
  /\ UNCHANGED <<exitCode, discVars, diagVars, loopVars>>
  /\ UNCHANGED pureVars

\* Lines 207-227: the read-back, compared within 0.001; always returns true.
WriteFloatVerify ==
  /\ pc = "wf_verify"
  /\ \E ok \in BOOLEAN, verify_data \in FloatReadBacks :
       /\ calLog' = Append(calLog,
            IoEvent("read", frame.addr, 2, IF ok THEN verify_data ELSE <<>>, ok))
       /\ wres' = Append(wres, WriteResult(frame.addr, TRUE,
            IF ~ok THEN "unreadable"
            ELSE IF FloatNear(modbus_get_float_abcd(verify_data), frame.data)
                   THEN "ok" ELSE "differs"))
  /\ ret' = TRUE
  /\ pc' = "cal_after"
  /\ UNCHANGED <<cal_mode, success, frame, msgs>>
  /\ UNCHANGED <<exitCode, discVars, diagVars, loopVars>>
  /\ UNCHANGED pureVars

\* ------------------------------------------------- execute_calibration
\* CalSkip without the early return of lines 234-237: mode 0 goes on to
\* write its own code into register 13.
CalSkipFallsThrough ==
  /\ pc = "cal_entry"
  /\ cal_mode = CAL_MODE_NONE
  /\ success' = TRUE
  /\ frame' = [addr |-> CALIBRATION_REG_MODE,
               data |-> <<CAL_MODE_NONE>>, step |-> 2]
  /\ pc' = "wi_write"
  /\ UNCHANGED <<cal_mode, ret, calLog, wres, msgs>>
  /\ UNCHANGED <<exitCode, discVars, diagVars, loopVars>>
  /\ UNCHANGED pureVars

\* Lines 234-237: mode 0 returns true at once.
CalSkip ==
  /\ pc = "cal_entry"
  /\ cal_mode = CAL_MODE_NONE
  /\ ret' = TRUE
  /\ pc' = "m_calret"
  /\ UNCHANGED <<cal_mode, success, frame, calLog, wres, msgs>>
  /\ UNCHANGED <<exitCode, discVars, diagVars, loopVars>>
  /\ UNCHANGED pureVars

\* CalStart with the test write of mode 3 aimed at register 13 instead of
\* register 16.
CalStartTestOnModeRegister ==
  /\ pc = "cal_entry"
  /\ cal_mode # CAL_MODE_NONE
  /\ success' = TRUE
  /\ CASE cal_mode = CAL_MODE_1 ->
            /\ frame' = [addr |-> CALIBRATION_REG_MODE,
                         data |-> <<CAL_MODE_1_VALUE>>, step |-> 1]
            /\ pc' = "wi_write"
       [] cal_mode = CAL_MODE_2 ->
            /\ frame' = [addr |-> CALIBRATION_REG_COEFF,
                         data |-> CALIBRATION_COEFF_VALUE, step |-> 1]
            /\ pc' = "wf_write"
       [] cal_mode = CAL_MODE_3 ->
            /\ frame' = [addr |-> CALIBRATION_REG_MODE,
                         data |-> <<TEST_K_VALUE>>, step |-> 1]
            /\ pc' = "wi_write"
  /\ UNCHANGED <<cal_mode, ret, calLog, wres, msgs>>
  /\ UNCHANGED <<exitCode, discVars, diagVars, loopVars>>
  /\ UNCHANGED pureVars

\* Lines 244-266: success = true, then the first write of the mode.
CalStart ==
  /\ pc = "cal_entry"
  /\ cal_mode # CAL_MODE_NONE
  /\ success' = TRUE
  /\ CASE cal_mode = CAL_MODE_1 ->
            /\ frame' = [addr |-> CALIBRATION_REG_MODE,
                         data |-> <<CAL_MODE_1_VALUE>>, step |-> 1]
            /\ pc' = "wi_write"
       [] cal_mode = CAL_MODE_2 ->
            /\ frame' = [addr |-> CALIBRATION_REG_COEFF,
                         data |-> CALIBRATION_COEFF_VALUE, step |-> 1]
            /\ pc' = "wf_write"
       [] cal_mode = CAL_MODE_3 ->
            /\ frame' = [addr |-> TEST_REG_K,
                         data |-> <<TEST_K_VALUE>>, step |-> 1]
            /\ pc' = "wi_write"
  /\ UNCHANGED <<cal_mode, ret, calLog, wres, msgs>>
  /\ UNCHANGED <<exitCode, discVars, diagVars, loopVars>>
  /\ UNCHANGED pureVars

\* CalAfterWrite dropping the value returned by the write.
CalAfterWriteIgnoresResult ==
  /\ pc = "cal_after"
  /\ success' = success
  /\ IF cal_mode = CAL_MODE_2 /\ frame.step = 1 /\ ret
       THEN /\ frame' = [addr |-> CALIBRATION_REG_MODE,
                         data |-> <<CAL_MODE_2_VALUE>>, step |-> 2]
            /\ pc' = "wi_write"
       ELSE /\ frame' = frame
            /\ pc' = "cal_done"
  /\ UNCHANGED <<cal_mode, ret, calLog, wres, msgs>>
  /\ UNCHANGED <<exitCode, discVars, diagVars, loopVars>>
  /\ UNCHANGED pureVars

\* CalAfterWrite without the if (success) of line 256.
CalAfterWriteNoShortCircuit ==
  /\ pc = "cal_after"
  /\ success' = ret
  /\ IF cal_mode = CAL_MODE_2 /\ frame.step = 1
       THEN /\ frame' = [addr |-> CALIBRATION_REG_MODE,
                         data |-> <<CAL_MODE_2_VALUE>>, step |-> 2]
            /\ pc' = "wi_write"
       ELSE /\ frame' = frame
            /\ pc' = "cal_done"
  /\ UNCHANGED <<cal_mode, ret, calLog, wres, msgs>>
  /\ UNCHANGED <<exitCode, discVars, diagVars, loopVars>>
  /\ UNCHANGED pureVars

\* CalAfterWrite undoing the coefficient when the mode write failed.
CalAfterWriteRollback ==
  /\ pc = "cal_after"
  /\ success' = IF frame.step = 3 THEN FALSE ELSE ret
  /\ IF cal_mode = CAL_MODE_2 /\ frame.step = 1 /\ ret
       THEN /\ frame' = [addr |-> CALIBRATION_REG_MODE,
                         data |-> <<CAL_MODE_2_VALUE>>, step |-> 2]
            /\ pc' = "wi_write"
       ELSE IF cal_mode = CAL_MODE_2 /\ frame.step = 2 /\ ~ret
       THEN /\ frame' = [addr |-> CALIBRATION_REG_COEFF,
                         data |-> FloatZero, step |-> 3]
            /\ pc' = "wf_write"
       ELSE /\ frame' = frame
            /\ pc' = "cal_done"
  /\ UNCHANGED <<cal_mode, ret, calLog, wres, msgs>>
  /\ UNCHANGED <<exitCode, discVars, diagVars, loopVars>>
  /\ UNCHANGED pureVars

\* success = write_*_register(...); in mode 2 the second write follows only
\* if (success) (lines 254-259).
CalAfterWrite ==
  /\ pc = "cal_after"
  /\ success' = ret
  /\ IF cal_mode = CAL_MODE_2 /\ frame.step = 1 /\ ret
       THEN /\ frame' = [addr |-> CALIBRATION_REG_MODE,
                         data |-> <<CAL_MODE_2_VALUE>>, step |-> 2]
            /\ pc' = "wi_write"
       ELSE /\ frame' = frame
            /\ pc' = "cal_done"
  /\ UNCHANGED <<cal_mode, ret, calLog, wres, msgs>>
  /\ UNCHANGED <<exitCode, discVars, diagVars, loopVars>>
  /\ UNCHANGED pureVars

\* Lines 277-286: print the verdict, sleep, return success.
CalDone ==
  /\ pc = "cal_done"
  /\ msgs' = Append(msgs, IF success THEN "completed" ELSE "failed")
  /\ ret' = success
  /\ frame' = NoFrame
  /\ pc' = "m_calret"
  /\ UNCHANGED <<cal_mode, success, calLog, wres>>
  /\ UNCHANGED <<exitCode, discVars, diagVars, loopVars>>
  /\ UNCHANGED pureVars

\* MainAfterCal treating a failed calibration as fatal: the process ends
\* with -1 instead of going on to the acquisition loop.
MainAfterCalFatal ==
  /\ pc = "m_calret"
  /\ msgs' = IF ret THEN msgs ELSE Append(msgs, "continuing")
  /\ pc' = IF ret THEN "s_top" ELSE "exit"
  /\ exitCode' = IF ret THEN exitCode ELSE -1
  /\ UNCHANGED <<cal_mode, success, frame, ret, calLog, wres>>
  /\ UNCHANGED <<discVars, diagVars, loopVars>>
  /\ UNCHANGED pureVars

\* MainAfterCal running the calibration again when it failed, instead of
\* going on to the acquisition loop.
MainAfterCalRetries ==
  /\ pc = "m_calret"
  /\ msgs' = IF ret THEN msgs ELSE Append(msgs, "continuing")
  /\ pc' = IF ret THEN "s_top" ELSE "cal_entry"
  /\ UNCHANGED <<cal_mode, success, frame, ret, calLog, wres>>
  /\ UNCHANGED <<exitCode, discVars, diagVars, loopVars>>
  /\ UNCHANGED pureVars

\* Lines 647-651: main warns when execute_calibration returned false and
\* goes on to the acquisition loop.
MainAfterCal ==
  /\ pc = "m_calret"
  /\ msgs' = IF ret THEN msgs ELSE Append(msgs, "continuing")
  /\ pc' = "s_top"
  /\ UNCHANGED <<cal_mode, success, frame, ret, calLog, wres>>
  /\ UNCHANGED <<exitCode, discVars, diagVars, loopVars>>
  /\ UNCHANGED pureVars

\* ------------------------------------------------------ acquisition loop
\* Lines 669-673: a cycle starts, the counter is incremented.
CycleStart ==
  /\ pc = "s_top"
  /\ loop_count < MaxCycles
  /\ loop_count' = loop_count + 1
  /\ temp' = FloatZero
  /\ cycleLog' = <<>>
  /\ pc' = "s_temp"
  /\ UNCHANGED <<reg_data, hex_temp, hex_raw_ec, raw_ec, sensor_ec,
                 sampleReads, emitted, dash, csv>>
  /\ UNCHANGED <<exitCode, discVars, diagVars, calVars>>
  /\ UNCHANGED pureVars

\* One modbus_read_registers(ctx, addr, 2, reg_data) of the loop and what it
\* delivered.
SampleRead(addr, ok, data) == [addr |-> addr, n |-> 2, ok |-> ok, data |-> data]

\* ReadTemp ending the process when the read fails, instead of the continue
\* of line 681.
ReadTempFatal ==
  /\ pc = "s_temp"
  /\ sampleReads' = sampleReads + 1
  /\ \E ok \in BOOLEAN, w \in TempWords :
       /\ cycleLog' = Append(cycleLog, SampleRead(REG_TEMP, ok, IF ok THEN w ELSE <<>>))
       /\ IF ok
         THEN /\ reg_data' = w
              /\ hex_temp' = to_hex_string(w[1], w[2])
              /\ temp' = modbus_get_float_abcd(w)
              /\ raw_ec' = FloatZero
              /\ pc' = "s_raw"
              /\ exitCode' = exitCode
         ELSE /\ UNCHANGED <<reg_data, hex_temp, temp, raw_ec>>
              /\ pc' = "exit"
              /\ exitCode' = -1
  /\ UNCHANGED <<loop_count, hex_raw_ec, sensor_ec, emitted, dash, csv>>
  /\ UNCHANGED <<discVars, diagVars, calVars>>
  /\ UNCHANGED pureVars

\* ReadTemp taking the count back when the read fails, so that an abandoned
\* cycle is not counted.
ReadTempUncounts ==
  /\ pc = "s_temp"
  /\ sampleReads' = sampleReads + 1
  /\ \E ok \in BOOLEAN, w \in TempWords :
       /\ cycleLog' = Append(cycleLog, SampleRead(REG_TEMP, ok, IF ok THEN w ELSE <<>>))
       /\ IF ok
         THEN /\ reg_data' = w
              /\ hex_temp' = to_hex_string(w[1], w[2])
              /\ temp' = modbus_get_float_abcd(w)
              /\ raw_ec' = FloatZero
              /\ loop_count' = loop_count
              /\ pc' = "s_raw"
         ELSE /\ UNCHANGED <<reg_data, hex_temp, temp, raw_ec>>
              /\ loop_count' = loop_count - 1
              /\ pc' = "s_top"
  /\ UNCHANGED <<hex_raw_ec, sensor_ec, emitted, dash, csv>>
  /\ UNCHANGED <<exitCode, discVars, diagVars, calVars>>
  /\ UNCHANGED pureVars

\* Lines 674-682: read the temperature; a failure abandons the cycle.
ReadTemp ==
  /\ pc = "s_temp"
  /\ sampleReads' = sampleReads + 1
  /\ \E ok \in BOOLEAN, w \in TempWords :
       /\ cycleLog' = Append(cycleLog, SampleRead(REG_TEMP, ok, IF ok THEN w ELSE <<>>))
       /\ IF ok
         THEN /\ reg_data' = w
              /\ hex_temp' = to_hex_string(w[1], w[2])
              /\ temp' = modbus_get_float_abcd(w)
              /\ raw_ec' = FloatZero
              /\ pc' = "s_raw"
         ELSE /\ UNCHANGED <<reg_data, hex_temp, temp, raw_ec>>
              /\ pc' = "s_top"
  /\ UNCHANGED <<loop_count, hex_raw_ec, sensor_ec, emitted, dash, csv>>
  /\ UNCHANGED <<exitCode, discVars, diagVars, calVars>>
  /\ UNCHANGED pureVars

\* ReadRawEc without the continue of line 692: after a failed read the cycle
\* goes on to the next read.
ReadRawEcNoContinue ==
  /\ pc = "s_raw"
  /\ sampleReads' = sampleReads + 1
  /\ \E ok \in BOOLEAN, w \in RawEcWords :
       /\ cycleLog' = Append(cycleLog, SampleRead(REG_RAW_EC, ok, IF ok THEN w ELSE <<>>))
       /\ IF ok
         THEN /\ reg_data' = w
              /\ hex_raw_ec' = to_hex_string(w[1], w[2])
              /\ raw_ec' = modbus_get_float_abcd(w)
              /\ sensor_ec' = FloatZero
              /\ pc' = "s_sensor"
         ELSE /\ UNCHANGED <<reg_data, hex_raw_ec, raw_ec, sensor_ec>>
              /\ pc' = "s_sensor"
  /\ UNCHANGED <<loop_count, hex_temp, temp, emitted, dash, csv>>
  /\ UNCHANGED <<exitCode, discVars, diagVars, calVars>>
  /\ UNCHANGED pureVars

\* ReadRawEc capturing the hex string only while it is still empty: later
\* cycles keep the string of the first successful read.
ReadRawEcStaleHex ==
  /\ pc = "s_raw"
  /\ sampleReads' = sampleReads + 1
  /\ \E ok \in BOOLEAN, w \in RawEcWords :
       /\ cycleLog' = Append(cycleLog, SampleRead(REG_RAW_EC, ok, IF ok THEN w ELSE <<>>))
       /\ IF ok
         THEN /\ reg_data' = w
              /\ hex_raw_ec' = IF hex_raw_ec = <<>>
                                 THEN to_hex_string(w[1], w[2]) ELSE hex_raw_ec
              /\ raw_ec' = modbus_get_float_abcd(w)
              /\ sensor_ec' = FloatZero
              /\ pc' = "s_sensor"
         ELSE /\ UNCHANGED <<reg_data, hex_raw_ec, raw_ec, sensor_ec>>
              /\ pc' = "s_top"
  /\ UNCHANGED <<loop_count, hex_temp, temp, emitted, dash, csv>>
  /\ UNCHANGED <<exitCode, discVars, diagVars, calVars>>
  /\ UNCHANGED pureVars

\* Lines 685-694: read the raw EC; a failure abandons the cycle.
ReadRawEc ==
  /\ pc = "s_raw"
  /\ sampleReads' = sampleReads + 1
  /\ \E ok \in BOOLEAN, w \in RawEcWords :
       /\ cycleLog' = Append(cycleLog, SampleRead(REG_RAW_EC, ok, IF ok THEN w ELSE <<>>))
       /\ IF ok
         THEN /\ reg_data' = w
              /\ hex_raw_ec' = to_hex_string(w[1], w[2])
              /\ raw_ec' = modbus_get_float_abcd(w)
              /\ sensor_ec' = FloatZero
              /\ pc' = "s_sensor"
         ELSE /\ UNCHANGED <<reg_data, hex_raw_ec, raw_ec, sensor_ec>>
              /\ pc' = "s_top"
  /\ UNCHANGED <<loop_count, hex_temp, temp, emitted, dash, csv>>
  /\ UNCHANGED <<exitCode, discVars, diagVars, calVars>>
  /\ UNCHANGED pureVars

\* ReadSensorEc without the continue of line 702: a failed read goes on to
\* the computation and the record.
ReadSensorEcEmitsAnyway ==
  /\ pc = "s_sensor"
  /\ sampleReads' = sampleReads + 1
  /\ \E ok \in BOOLEAN, w \in SensorEcWords :
       /\ cycleLog' = Append(cycleLog, SampleRead(REG_SENSOR_EC, ok, IF ok THEN w ELSE <<>>))
       /\ IF ok
         THEN /\ reg_data' = w
              /\ sensor_ec' = modbus_get_float_abcd(w)
              /\ pc' = "s_emit"
         ELSE /\ UNCHANGED <<reg_data, sensor_ec>>
              /\ pc' = "s_emit"
  /\ UNCHANGED <<loop_count, hex_temp, hex_raw_ec, temp, raw_ec, emitted, dash, csv>>
  /\ UNCHANGED <<exitCode, discVars, diagVars, calVars>>
  /\ UNCHANGED pureVars

\* Lines 697-704: read the sensor's own EC; a failure abandons the cycle.
ReadSensorEc ==
  /\ pc = "s_sensor"
  /\ sampleReads' = sampleReads + 1
  /\ \E ok \in BOOLEAN, w \in SensorEcWords :
       /\ cycleLog' = Append(cycleLog, SampleRead(REG_SENSOR_EC, ok, IF ok THEN w ELSE <<>>))
       /\ IF ok
         THEN /\ reg_data' = w
              /\ sensor_ec' = modbus_get_float_abcd(w)
              /\ pc' = "s_emit"
         ELSE /\ UNCHANGED <<reg_data, sensor_ec>>
              /\ pc' = "s_top"
  /\ UNCHANGED <<loop_count, hex_temp, hex_raw_ec, temp, raw_ec, emitted, dash, csv>>
  /\ UNCHANGED <<exitCode, discVars, diagVars, calVars>>
  /\ UNCHANGED pureVars

\* Lines 706-733: compute the compensated value, show the dashboard and
\* append the CSV row.
EmitRecord ==
  /\ pc = "s_emit"
  /\ LET smart_ec == calculate_smart_ec(raw_ec, temp)
         k_used == get_dynamic_k(temp)
         deviation == RatSub(FloatToRat(sensor_ec), smart_ec)
     IN  /\ dash' = [temp |-> temp, raw_ec |-> raw_ec, sensor_ec |-> sensor_ec,
                     smart_ec |-> smart_ec, k_used |-> k_used,
                     sample_count |-> loop_count, port |-> port,
                     hex_temp |-> hex_temp, hex_raw_ec |-> hex_raw_ec]
         /\ csv' = [temp |-> temp, hex_temp |-> hex_temp, raw_ec |-> raw_ec,
                    hex_raw_ec |-> hex_raw_ec, sensor_ec |-> sensor_ec,
                    smart_ec |-> smart_ec, deviation |-> deviation]
  /\ emitted' = emitted + 1
  /\ pc' = "s_top"
  /\ UNCHANGED <<loop_count, reg_data, hex_temp, hex_raw_ec, temp, raw_ec,
                 sensor_ec, sampleReads, cycleLog>>
  /\ UNCHANGED <<exitCode, discVars, diagVars, calVars>>
  /\ UNCHANGED pureVars

\* ------------------------------------------------------------ the program
main ==
  \/ MainNotFound
  \/ MainNew
  \/ MainConnect
  \/ MainAfterCal
  \/ CycleStart
  \/ ReadTemp
  \/ ReadRawEc
  \/ ReadSensorEc
  \/ EmitRecord

display_sensor_diagnostics ==
  \/ DiagPass
  \/ DiagKey

write_integer_register ==
  \/ WriteIntRaw
  \/ WriteIntVerify

write_float_register ==
  \/ WriteFloatRaw
  \/ WriteFloatVerify

execute_calibration ==
  \/ CalSkip
  \/ CalStart
  \/ CalAfterWrite
  \/ CalDone

Next ==
  \/ find_sensor_port
  \/ main
  \/ display_sensor_diagnostics
  \/ GetMode
  \/ write_integer_register
  \/ write_float_register
  \/ execute_calibration

Spec == Init /\ [][Next]_vars

\* ------------------------------------------------- the float codec alone
\* Bytes the patterns under test are made of.
CodecBytes == {0, 1, 127, 128, 255}

\* A float value (its pattern) handed to the codec.
InitCodec ==
  /\ pc = "codec"
  /\ Idle
  /\ arg \in CodecBytes \X CodecBytes \X CodecBytes \X CodecBytes
  /\ res = <<>>

\* Line 190: the value is encoded into the two words of reg_data.
CodecEncode ==
  /\ pc = "codec"
  /\ res' = [words |-> modbus_set_float_abcd(arg)]
  /\ pc' = "codec_words"
  /\ UNCHANGED <<exitCode, discVars, diagVars, calVars, loopVars, arg>>

\* Lines 109-122: the words are decoded, as they are and with the two words
\* exchanged.
CodecDecode ==
  /\ pc = "codec_words"
  /\ res' = [words |-> res.words,
             back |-> modbus_get_float_abcd(res.words),
             swapped |-> modbus_get_float_abcd(<<res.words[2], res.words[1]>>)]
  /\ pc' = "codec_done"
  /\ UNCHANGED <<exitCode, discVars, diagVars, calVars, loopVars, arg>>

NextCodec ==
  \/ CodecEncode
  \/ CodecDecode

SpecCodec == InitCodec /\ [][NextCodec]_vars

\* ------------------------------------------------- get_dynamic_k alone
\* Temperatures handed to get_dynamic_k: -40.0, 0.0, 100.0, every threshold
\* with the float next above it, the float next below 5.0, and the floats
\* nearest 5.01 and 25.01.
F5_01 == <<64, 160, 81, 236>>
F25_01 == <<65, 200, 20, 123>>
KTemps ==
  {<<194, 32, 0, 0>>, FloatZero, <<66, 200, 0, 0>>,
   <<64, 159, 255, 255>>, F5, <<64, 160, 0, 1>>, F5_01,
   F10, <<65, 32, 0, 1>>, F15, <<65, 112, 0, 1>>,
   F25, <<65, 200, 0, 1>>, F25_01, F30, <<65, 240, 0, 1>>}

\* Two temperatures, to compare what the table gives for them.
InitDynK ==
  /\ pc = "dynk"
  /\ Idle
  /\ arg \in KTemps \X KTemps
  /\ res = <<>>

\* Lines 35-49, applied to each of the two.
DynKApply ==
  /\ pc = "dynk"
  /\ res' = <<get_dynamic_k(arg[1]), get_dynamic_k(arg[2])>>
  /\ pc' = "dynk_done"
  /\ UNCHANGED <<exitCode, discVars, diagVars, calVars, loopVars, arg>>

NextDynK == DynKApply

SpecDynK == InitDynK /\ [][NextDynK]_vars

\* ===================================================================
\* Properties
\* ===================================================================
DiscPcs == {"d_new", "d_connect", "d_read", "d_found", "d_return", "d_close", "d_free"}

Min(S) == CHOOSE x \in S : \A y \in S : x <= y

\* Candidates whose handshake read succeeded, and candidates that opened.
AnsweredCands ==
  {dlog[j].cand : j \in {k \in DOMAIN dlog : dlog[k].ev = "read" /\ dlog[k].ok}}
OpenedCands ==
  {dlog[j].cand : j \in {k \in DOMAIN dlog : dlog[k].ev = "open"}}
ReadsOf(c) ==
  Cardinality({k \in DOMAIN dlog : dlog[k].ev = "read" /\ dlog[k].cand = c})

\* ------------------------------------------------------------------ C1
\* C1: discovery probes the candidates in list order (the candidate of a
\* later event is never before the candidate of an earlier one, and a
\* candidate is opened at most once); once a handshake read has succeeded
\* the only event that follows is the close of that same probe; and the
\* port returned to main is the candidate of lowest index whose handshake
\* read succeeded.
C1_FirstMatchWins ==
  /\ \A j, k \in DOMAIN dlog : j < k => dlog[j].cand <= dlog[k].cand
  /\ \A j, k \in DOMAIN dlog :
       (j < k /\ dlog[j].ev = "open" /\ dlog[k].ev = "open")
         => dlog[j].cand < dlog[k].cand
  /\ \A j, k \in DOMAIN dlog :
       (j < k /\ dlog[j].ev = "read" /\ dlog[j].ok)
         => (dlog[k].ev = "close" /\ dlog[k].cand = dlog[j].cand)
  /\ (pc = "m_check" /\ AnsweredCands # {})
       => (port = Ports[Min(AnsweredCands)] /\ i = Min(AnsweredCands))
  /\ (pc \in DiscPcs /\ AnsweredCands # {}) => pc \in {"d_found", "d_return"}

\* The second candidate wins after the first one opened and stayed silent,
\* while later candidates remain.
C1_Witness ==
  /\ pc = "m_check"
  /\ port = Ports[2]
  /\ NumPorts > 2
  /\ \E j \in DOMAIN dlog :
       dlog[j].ev = "read" /\ dlog[j].cand = 1 /\ ~dlog[j].ok

\* ------------------------------------------------------------------ C2
ClosedInLog(j) ==
  \E k \in DOMAIN dlog :
    k > j /\ dlog[k].ev = "close" /\ dlog[k].cand = dlog[j].cand

\* C2: whenever discovery is about to create or connect the next candidate,
\* is freeing a context, or has returned to main, no probe connection is
\* open and every probe that was opened has been closed, answered or not.
C2_ProbesClosed ==
  (pc \in {"d_new", "d_connect", "d_free", "d_return", "m_check"})
    => /\ open = {}
       /\ \A j \in DOMAIN dlog : dlog[j].ev = "open" => ClosedInLog(j)

\* Discovery has returned a port after closing a silent probe and the
\* answering one.
C2_Witness ==
  /\ pc = "m_check"
  /\ port # NoPort
  /\ \E j \in DOMAIN dlog : dlog[j].ev = "read" /\ ~dlog[j].ok
  /\ \E j \in DOMAIN dlog :
       dlog[j].ev = "close" /\ dlog[j].cand \in AnsweredCands

\* ------------------------------------------------------------------ C3
\* C3: at most one connection is open in every state of the run.
C3_AtMostOneOpen == Cardinality(open) <= 1

\* The session is open in the acquisition loop, after a discovery that
\* went past the first candidate.
C3_Witness ==
  /\ pc = "s_raw"
  /\ open = {SessionCtx}
  /\ port = Ports[3]

\* ------------------------------------------------------------------ C4
NoHandshake ==
  \A j \in DOMAIN dlog : ~(dlog[j].ev = "read" /\ dlog[j].ok)

C4_Inv ==
  /\ (pc = "m_check" /\ NoHandshake) => port = NoPort
  /\ (pc \notin DiscPcs /\ port = NoPort)
       => /\ NoHandshake
          /\ pc \in {"m_check", "exit"}
          /\ pc = "exit" => exitCode = -1
          /\ SessionCtx \notin alloc
          /\ SessionCtx \notin open
          /\ calLog = <<>>
          /\ sampleReads = 0

\* C4: when no handshake succeeded discovery returns the empty port, the
\* next step of main is exit with status -1, and in that run no session
\* context is created or connected, no calibration access is issued and no
\* sampling read is performed.
C4_NotFoundIsFatal ==
  /\ []C4_Inv
  /\ [][(pc = "m_check" /\ port = NoPort) => (pc' = "exit" /\ exitCode' = -1)]_vars

\* The run has ended with -1 after probes that opened and stayed silent.
C4_Witness ==
  /\ pc = "exit"
  /\ port = NoPort
  /\ exitCode = -1
  /\ \E j \in DOMAIN dlog : dlog[j].ev = "read" /\ ~dlog[j].ok

\* ------------------------------------------------------------------ C5
\* The events of discovery without the register words.
Pattern == [j \in DOMAIN dlog |-> [ev |-> dlog[j].ev, cand |-> dlog[j].cand, ok |-> dlog[j].ok]]

\* The port decided by a pattern alone.
PortOfPattern(p) ==
  LET won == {p[j].cand : j \in {k \in DOMAIN p : p[k].ev = "read" /\ p[k].ok}}
  IN  IF won = {} THEN NoPort ELSE Ports[Min(won)]

\* C5: the port returned is a function of the open / handshake pattern
\* alone, whatever words the handshake reads delivered; every handshake
\* read is a read of the two registers at 60, issued on a candidate that
\* opened; a candidate that opened gets exactly one read and a candidate
\* that did not open gets none.
C5_ContentIndependent ==
  /\ pc = "m_check" => port = PortOfPattern(Pattern)
  /\ \A j \in DOMAIN dlog :
       dlog[j].ev = "read"
         => /\ dlog[j].addr = 60
            /\ dlog[j].ok => Len(dlog[j].data) = 2
            /\ dlog[j].cand \in OpenedCands
  /\ \A c \in 1..NumPorts :
       /\ ReadsOf(c) <= 1
       /\ c \notin OpenedCands => ReadsOf(c) = 0
       /\ (c \in OpenedCands /\ (c < i \/ pc \notin {"d_read"})) => ReadsOf(c) = 1

\* A handshake that delivered the words 0, 0 selected the first candidate.
C5_Witness ==
  /\ pc = "m_check"
  /\ port = Ports[1]
  /\ \E j \in DOMAIN dlog :
       dlog[j].ev = "read" /\ dlog[j].ok /\ dlog[j].data = <<0, 0>>

\* ------------------------------------------------------------------ C6
IsWrite(e) == e.op = "write"
\* The raw writes issued so far, in order.
Writes == SelectSeq(calLog, IsWrite)
WritePos == {j \in DOMAIN calLog : calLog[j].op = "write"}
\* Position in calLog of the k-th raw write.
PosOf(k) == CHOOSE j \in WritePos : Cardinality({x \in WritePos : x <= j}) = k

\* C6: a raw write that failed (integer or float) is never followed by a
\* read of its register, and the call that issued it returns false with no
\* verification verdict.
C6_FailedWriteNoReadBack ==
  /\ \A j, k \in DOMAIN calLog :
       (j < k /\ calLog[j].op = "write" /\ ~calLog[j].ok)
         => ~(calLog[k].op = "read" /\ calLog[k].addr = calLog[j].addr)
  /\ Len(wres) <= Len(Writes)
  /\ pc \notin {"wi_verify", "wf_verify"} => Len(wres) = Len(Writes)
  /\ \A k \in DOMAIN wres :
       /\ wres[k].addr = Writes[k].addr
       /\ ~Writes[k].ok => (~wres[k].accepted /\ wres[k].verify = "none")
  /\ (pc = "cal_after" /\ ~Writes[Len(Writes)].ok) => ret = FALSE

\* In mode 2 the write of register 13 failed after the coefficient went
\* through: the call has returned false and the log ends with that write.
C6_Witness ==
  /\ pc = "cal_after"
  /\ ret = FALSE
  /\ Len(Writes) = 2
  /\ calLog[Len(calLog)].op = "write"
  /\ calLog[Len(calLog)].addr = 13
  /\ ~calLog[Len(calLog)].ok

\* ------------------------------------------------------------------ C7
\* The register words within 0.001 of 12880.0 (0x46494000): the float
\* itself and its two neighbours, 2^-10 away.
NearCoefficient == {<<17993, 16383>>, <<17993, 16384>>, <<17993, 16385>>}

\* Whether read-back r matches write w: equal for one integer register,
\* within 0.001 for the float pair.
Matches(w, r) ==
  IF w.n = 1 THEN r.data = w.data
  ELSE w.data = <<17993, 16384>> /\ r.data \in NearCoefficient

AfterCalPcs == {"cal_done", "m_calret", "s_top", "s_temp", "s_raw", "s_sensor", "s_emit"}

\* C7: a write that went through and whose read-back was delivered is
\* accepted, with the verdict "ok" exactly when the read-back matches and
\* "differs" otherwise; the call returns true on a mismatch, and in mode 2
\* a mismatch on the coefficient does not keep the write of register 13
\* from being issued.
C7_MismatchIsWarning ==
  /\ \A k \in DOMAIN wres :
       LET j == PosOf(k) IN
       (calLog[j].ok /\ j < Len(calLog) /\ calLog[j + 1].op = "read" /\ calLog[j + 1].ok)
         => /\ wres[k].accepted
            /\ wres[k].verify = IF Matches(calLog[j], calLog[j + 1]) THEN "ok" ELSE "differs"
  /\ \A k \in DOMAIN wres : wres[k].verify = "differs" => wres[k].accepted
  /\ (pc = "cal_after" /\ wres[Len(wres)].verify = "differs") => ret = TRUE
  /\ (cal_mode = CAL_MODE_2 /\ pc \in AfterCalPcs /\ wres[1].verify = "differs")
       => (Len(Writes) = 2 /\ Writes[2].addr = 13)

\* Mode 2 ran to its end although the coefficient read back two float
\* steps away from 12880.0, and execute_calibration returned true.
C7_Witness ==
  /\ pc = "m_calret"
  /\ cal_mode = CAL_MODE_2
  /\ Len(wres) = 2
  /\ wres[1].accepted
  /\ wres[1].verify = "differs"
  /\ calLog[2].data = <<17993, 16386>>
  /\ wres[2].verify = "differs"
  /\ ret = TRUE

\* ------------------------------------------------------------------ C8
AllWritesOk == \A j \in DOMAIN calLog : calLog[j].op = "write" => calLog[j].ok

\* C8: for every mode, the value execute_calibration hands back to main is
\* false exactly when one of the raw writes it issued failed, whatever the
\* read-backs were; the verdict it prints agrees.
C8_FailureIffRawWriteFailed ==
  pc = "m_calret"
    => /\ ret = AllWritesOk
       /\ cal_mode # CAL_MODE_NONE
            => msgs = <<IF AllWritesOk THEN "completed" ELSE "failed">>
       /\ cal_mode = CAL_MODE_NONE => (calLog = <<>> /\ msgs = <<>>)

\* Mode 1 returned failure after its only write failed.
C8_Witness ==
  /\ pc = "m_calret"
  /\ cal_mode = CAL_MODE_1
  /\ ret = FALSE
  /\ Len(calLog) = 1

\* ------------------------------------------------------------------ C9
\* C9: in mode 2 the first write is the float 12880.0 to registers 28-29;
\* a second write exists only after that one went through and is the
\* integer 3 to register 13; when the coefficient write failed no write to
\* register 13 is issued in the rest of the run and execute_calibration
\* returns false.
C9_Mode2Order ==
  cal_mode = CAL_MODE_2
    => /\ Len(Writes) <= 2
       /\ Len(Writes) >= 1
            => (Writes[1].addr = 28 /\ Writes[1].n = 2
                /\ Writes[1].data = <<17993, 16384>>)
       /\ Len(Writes) = 2
            => (Writes[1].ok /\ Writes[2].addr = 13 /\ Writes[2].n = 1
                /\ Writes[2].data = <<3>>)
       /\ (Len(Writes) >= 1 /\ ~Writes[1].ok)
            => /\ \A j \in DOMAIN calLog : calLog[j].addr # 13
               /\ pc = "m_calret" => ret = FALSE
       /\ (pc \in AfterCalPcs /\ Writes[1].ok) => Len(Writes) = 2

\* The acquisition loop runs after a mode 2 whose coefficient write failed:
\* that write is the only access calibration made.
C9_Witness ==
  /\ cal_mode = CAL_MODE_2
  /\ pc = "s_sensor"
  /\ Len(calLog) = 1
  /\ calLog[1].addr = 28
  /\ ~calLog[1].ok

\* ----------------------------------------------------------------- C10
TouchesCoeff(e) == e.addr <= 29 /\ e.addr + e.n > 28

\* C10: in mode 2, when the coefficient write went through and the write of
\* register 13 failed, the coefficient write is the only write that ever
\* touches registers 28-29, the failed write is the last access calibration
\* makes, and execute_calibration reports failure.
C10_NoRollback ==
  (cal_mode = CAL_MODE_2 /\ Len(Writes) >= 2 /\ Writes[1].ok /\ ~Writes[2].ok)
    => /\ Cardinality({j \in WritePos : TouchesCoeff(calLog[j])}) = 1
       /\ TouchesCoeff(Writes[1])
       /\ calLog[Len(calLog)] = Writes[2]
       /\ Len(Writes) = 2
       /\ pc = "cal_done" => ~success
       /\ pc = "m_calret" => (ret = FALSE /\ msgs = <<"failed">>)
       /\ pc \in {"s_top", "s_temp", "s_raw", "s_sensor", "s_emit"}
            => msgs = <<"failed", "continuing">>

\* The acquisition loop has emitted a record after a mode 2 that wrote the
\* coefficient and failed on register 13.
C10_Witness ==
  /\ cal_mode = CAL_MODE_2
  /\ emitted >= 1
  /\ Len(Writes) = 2
  /\ Writes[1].ok
  /\ ~Writes[2].ok

\* What holds once mode 0 has come back from execute_calibration.
C11_SkipState ==
  (cal_mode = CAL_MODE_NONE /\ pc \in AfterCalPcs) =>
     /\ calLog = <<>>
     /\ wres = <<>>
     /\ msgs = <<>>
     /\ ret = TRUE
     /\ open = {SessionCtx}
     /\ alloc = {SessionCtx}

C11_SkipStep ==
  (pc = "cal_entry" /\ cal_mode = CAL_MODE_NONE) =>
     /\ pc' = "m_calret"
     /\ ret' = TRUE
     /\ UNCHANGED <<calLog, wres, msgs, open, alloc, frame, success>>

\* C11: with mode 0 (no calibration) execute_calibration returns true in one
\* step, and neither that step nor anything before the acquisition loop
\* issues a register read or write, prints a verdict, or touches the
\* session connection.
C11_NoneIsNoOp == []C11_SkipState /\ [][C11_SkipStep]_vars

C11_Witness ==
  /\ pc = "m_calret"
  /\ cal_mode = CAL_MODE_NONE
  /\ ret = TRUE
  /\ calLog = <<>>
  /\ open = {SessionCtx}

\* The one raw write of a single-step mode: register 13 <- 2 for mode 1,
\* register 16 <- 190 for mode 3, one register wide.
SingleStepWrite(mode, e) ==
  /\ e.n = 1
  /\ e.addr = (IF mode = CAL_MODE_1 THEN 13 ELSE 16)
  /\ e.data = (IF mode = CAL_MODE_1 THEN <<2>> ELSE <<190>>)

\* C12: in modes 1 and 3 calibration issues exactly one raw write and no
\* other: mode 1 writes the integer 2 to register 13, mode 3 writes the
\* integer 190 to register 16, whether the write goes through or not.
C12_SingleStepModes ==
  cal_mode \in {CAL_MODE_1, CAL_MODE_3} =>
     /\ Len(Writes) <= 1
     /\ \A j \in DOMAIN Writes : SingleStepWrite(cal_mode, Writes[j])
     /\ pc \in AfterCalPcs => Len(Writes) = 1

C12_Witness ==
  /\ pc = "s_top"
  /\ cal_mode = CAL_MODE_3
  /\ Len(Writes) = 1
  /\ Writes[1].addr = 16
  /\ Writes[1].ok

\* Positions inside execute_calibration and at its return to main.
CalPcs ==
  {"cal_entry", "wi_write", "wi_verify", "wf_write", "wf_verify",
   "cal_after", "cal_done", "m_calret"}
SamplePcs == {"s_top", "s_temp", "s_raw", "s_sensor", "s_emit"}

\* Steps that calibration can still take before the acquisition loop: the
\* first write of a mode is step 1 of its frame, the second write of mode 2
\* is step 2.
CalRank ==
  CASE pc = "cal_entry" -> 9
    [] pc \in {"wi_write", "wf_write"} -> IF frame.step = 1 THEN 8 ELSE 5
    [] pc \in {"wi_verify", "wf_verify"} -> IF frame.step = 1 THEN 7 ELSE 4
    [] pc = "cal_after" -> IF frame.step = 1 THEN 6 ELSE 3
    [] pc = "cal_done" -> 2
    [] pc = "m_calret" -> 1
    [] OTHER -> 0

C13_Step ==
  /\ pc \in CalPcs =>
       /\ pc' \in CalPcs \cup {"s_top"}
       /\ open' = open
       /\ alloc' = alloc
       /\ CalRank' < CalRank
  /\ pc = "m_calret" => pc' = "s_top"

\* What holds in calibration and at the entry of the loop.
C13_State ==
  /\ pc \in CalPcs \cup SamplePcs => (open = {SessionCtx} /\ exitCode = 0)
  /\ pc \in CalPcs => ENABLED Next
  /\ (pc = "s_top" /\ loop_count = 0) => ENABLED CycleStart

\* C13: whatever the mode and whatever execute_calibration returns, the
\* process does not end in or after calibration: in calibration a step is
\* always possible, no step leads to the exit or touches the session
\* connection, every step brings the acquisition loop nearer, and the
\* return to main is followed by the loop whether the value returned is
\* true or false; the first cycle can then start on the session connection.
C13_CalibrationNeverFatal == []C13_State /\ [][C13_Step]_vars

C13_Witness ==
  /\ pc = "s_temp"
  /\ cal_mode = CAL_MODE_2
  /\ ~ret
  /\ msgs = <<"failed", "continuing">>
  /\ open = {SessionCtx}

\* The cycle in progress has a record: the dashboard record carries the
\* cycle's number as its sample count.
RecordOfCycle == dash # NoRecord /\ dash.sample_count = loop_count

\* A failed read is the last read of its cycle, the cycle is back at the top
\* of the loop, and it has no record.
C14_State ==
  \A j \in DOMAIN cycleLog :
     ~cycleLog[j].ok =>
        /\ j = Len(cycleLog)
        /\ pc = "s_top"
        /\ ~RecordOfCycle

\* The step of a failed read emits nothing.
C14_Step ==
  (pc \in {"s_temp", "s_raw", "s_sensor"} /\ pc' = "s_top") =>
     UNCHANGED <<emitted, dash, csv>>

\* C14: when one of the three reads of a cycle fails the cycle is abandoned
\* at that read: no later read of the cycle is issued, and neither a
\* dashboard record nor a CSV row is emitted for it.
C14_FailedReadAbandonsCycle == []C14_State /\ [][C14_Step]_vars

C14_Witness ==
  /\ pc = "s_top"
  /\ loop_count = 2
  /\ emitted = 1
  /\ Len(cycleLog) = 2
  /\ cycleLog[1].ok
  /\ ~cycleLog[2].ok

\* Every read of the cycle in progress succeeded, and all three were made.
CycleComplete ==
  Len(cycleLog) = 3 /\ \A j \in DOMAIN cycleLog : cycleLog[j].ok

\* At the top of the loop the next cycle can start (as long as the model
\* follows the loop); a complete cycle that comes after a cycle with a failed
\* read has its record.
C15_State ==
  /\ (pc = "s_top" /\ loop_count < MaxCycles) => ENABLED CycleStart
  /\ (pc = "s_top" /\ CycleComplete /\ sampleReads < 3 * loop_count)
        => RecordOfCycle

\* The loop is never left, and a failed read leads to the top of the loop
\* with the session connection as it was.
C15_Step ==
  /\ pc \in SamplePcs => pc' \in SamplePcs
  /\ pc = "s_top" => (pc' = "s_temp" /\ loop_count' = loop_count + 1)
  /\ (pc \in {"s_temp", "s_raw", "s_sensor"} /\ ~cycleLog'[Len(cycleLog')].ok)
        => (pc' = "s_top" /\ open' = open /\ exitCode' = exitCode)

\* C15: a failed read never ends the acquisition loop: no step of the loop
\* leads out of it, after a failed read the loop is at its top and starts
\* the next cycle, and a cycle whose three reads succeed after failed cycles
\* still produces its record.
C15_FailuresNeverEndLoop == []C15_State /\ [][C15_Step]_vars

C15_Witness ==
  /\ pc = "s_top"
  /\ loop_count = 2
  /\ sampleReads = 4
  /\ CycleComplete
  /\ emitted = 1
  /\ RecordOfCycle

\* A cycle at the top of the loop has its record exactly when its three
\* reads succeeded; a cycle still under way has none; the record is about to
\* be emitted exactly when the three reads succeeded and it is not yet there.
C16_State ==
  /\ (pc = "s_top" /\ loop_count >= 1) => (RecordOfCycle <=> CycleComplete)
  /\ pc \in {"s_temp", "s_raw", "s_sensor", "s_emit"} => ~RecordOfCycle
  /\ pc = "s_emit" <=> (pc \in SamplePcs /\ CycleComplete /\ ~RecordOfCycle)
  /\ emitted <= loop_count

\* The count of records grows by one in the emitting step of a complete
\* cycle, which hands over the dashboard record and the CSV row of that
\* cycle, and in no other step; no other step changes either record.
C16_Step ==
  IF pc = "s_emit"
    THEN /\ emitted' = emitted + 1
         /\ dash' # NoRecord /\ dash'.sample_count = loop_count
         /\ csv' # NoRecord
         /\ pc' = "s_top"
    ELSE UNCHANGED <<emitted, dash, csv>>

\* C16: a cycle in which all three reads succeed emits exactly one record
\* (dashboard and CSV row), and a record is emitted only for such a cycle.
C16_RecordIffComplete == []C16_State /\ [][C16_Step]_vars

C16_Witness ==
  /\ pc = "s_top"
  /\ loop_count = 2
  /\ sampleReads = 6
  /\ emitted = 2
  /\ CycleComplete
  /\ RecordOfCycle

\* C17: every connection that was opened is closed by the time the process
\* exits; in particular the session connection of main is closed on every
\* exit taken after it was opened, the exit from the selection of the
\* calibration mode included.
C17_ClosedAtExit == pc = "exit" => open = {}

\* C18: the float codec round-trips bit for bit.  Encoding a pattern gives
\* word0 = its high 16 bits and word1 = its low 16 bits; decoding forms
\* (word0 << 16) | word1; decoding what was encoded gives the pattern back;
\* decoding the two words in exchanged order gives the pattern back only
\* when the two words are equal.
C18_CodecRoundTrip ==
  /\ pc \in {"codec_words", "codec_done"} =>
       /\ res.words[1] = arg[1] * 256 + arg[2]
       /\ res.words[2] = arg[3] * 256 + arg[4]
  /\ pc = "codec_done" =>
       /\ res.back[1] * 256 + res.back[2] = res.words[1]
       /\ res.back[3] * 256 + res.back[4] = res.words[2]
       /\ res.back = arg
       /\ (res.swapped = arg) <=> (res.words[1] = res.words[2])

C18_Witness ==
  /\ pc = "codec_done"
  /\ arg = <<128, 1, 127, 255>>
  /\ res.words = <<32769, 32767>>
  /\ res.back = arg
  /\ res.swapped = <<127, 255, 128, 1>>

\* The band of the table a temperature falls in, from its exact value n / d:
\* a threshold belongs to the band below it.
KBand(t) ==
  LET r == FloatToRat(t)
  IN  IF r.n <= 5 * r.d THEN 180
      ELSE IF r.n <= 10 * r.d THEN 184
      ELSE IF r.n <= 15 * r.d THEN 190
      ELSE IF r.n <= 25 * r.d THEN 190
      ELSE IF r.n <= 30 * r.d THEN 192
      ELSE 194

\* C19: get_dynamic_k is the piecewise table 0.0180 / 0.0184 / 0.0190 /
\* 0.0190 / 0.0192 / 0.0194 with thresholds 5, 10, 15, 25 and 30 belonging
\* to the lower band: K(5.0) = 0.0180, K(5.01) = 0.0184, K(25.0) = 0.0190,
\* K(25.01) = 0.0192; and it is non-decreasing in the temperature.
C19_DynamicKTable ==
  pc = "dynk_done" =>
     /\ res[1] = KBand(arg[1])
     /\ arg[1] = F5 => res[1] = 180
     /\ arg[1] = F5_01 => res[1] = 184
     /\ arg[1] = F25 => res[1] = 190
     /\ arg[1] = F25_01 => res[1] = 192
     /\ FloatLeq(arg[1], arg[2]) => res[1] <= res[2]

C19_Witness ==
  /\ pc = "dynk_done"
  /\ arg = <<F5, F5_01>>
  /\ res = <<180, 184>>

\* C20: the compensation guards the degenerate case: when the denominator
\* 1 + K(t) * (t - 25) is zero or negative no quotient is handed on, so no
\* record carries a value computed from such a denominator.
C20_DegenerateGuarded ==
  dash # NoRecord => Denominator(dash.temp).n > 0

\* The phase of a run a position belongs to: discovery, opening the session,
\* the diagnostic monitor and the selection of the mode, calibration, the
\* acquisition loop, the end of the process.
Phase(p) ==
  CASE p \in DiscPcs -> 1
    [] p \in {"m_check", "m_connect"} -> 2
    [] p \in {"diag", "diag_key", "getmode"} -> 3
    [] p \in CalPcs -> 4
    [] p \in SamplePcs -> 5
    [] OTHER -> 6

\* What each phase finds done and not yet done.
C21_State ==
  /\ Phase(pc) = 1 => (SessionCtx \notin alloc /\ SessionCtx \notin open)
  /\ Phase(pc) <= 3 => calLog = <<>>
  /\ Phase(pc) <= 4 => (sampleReads = 0 /\ loop_count = 0)
  /\ SessionCtx \in alloc => (alloc = {SessionCtx} /\ port # NoPort)
  /\ SessionCtx \in open => (open = {SessionCtx} /\ Phase(pc) >= 3)
  /\ Phase(pc) \in {4, 5} => open = {SessionCtx}
  /\ pc = "exit" => (calLog = <<>> /\ sampleReads = 0)

\* No step goes back to an earlier phase; calibration is entered from the
\* selection of the mode only, with no calibration access made yet; the
\* loop leaves the calibration log alone.
C21_Step ==
  /\ Phase(pc') >= Phase(pc)
  /\ pc' = "cal_entry" => (pc = "getmode" /\ calLog = <<>>)
  /\ pc \in SamplePcs => calLog' = calLog

\* C21: the phases of a run are strictly ordered: discovery ends with its
\* probes closed, then the session connection is opened, then calibration
\* runs at most once, then the acquisition loop; every calibration write
\* precedes the first read of the loop and no write is issued once the loop
\* has started.
C21_PhasesOrdered == []C21_State /\ [][C21_Step]_vars

C21_Witness ==
  /\ pc = "s_raw"
  /\ sampleReads = 1
  /\ Len(Writes) = 2
  /\ open = {SessionCtx}
  /\ alloc = {SessionCtx}

\* The candidates the scan has reached so far, and the naming scheme and the
\* number of a candidate.
Tried == {j \in 1..NumPorts : j <= i}
Scheme(j) == Ports[j][1]
Number(j) == Ports[j][2]

\* C22 as stated: the candidates scanned list each naming scheme's whole
\* range contiguously, one scheme after the other: between two candidates of
\* one scheme there is no candidate of another scheme.
C22_NoInterleaving ==
  pc \in DiscPcs =>
     \A a, b, c \in Tried :
        (a < b /\ b < c /\ Scheme(a) = Scheme(c)) => Scheme(b) = Scheme(a)

\* C22 amended: the scan takes every ttyS number first, in ascending order
\* from 0; then, for each USB number in ascending order from 0, the ttyUSB
\* name directly followed by the ttyACM name of that number.  No ttyS name
\* comes after a USB or ACM name, and the ttyUSB and ttyACM names alternate.
C22_SerialThenUsbAcmPairs ==
  pc \in DiscPcs =>
     /\ \A j \in Tried :
          /\ Scheme(j) \in {"/dev/ttyS", "/dev/ttyUSB", "/dev/ttyACM"}
          /\ Scheme(j) = "/dev/ttyS" <=> j <= TtySLast + 1
          /\ Scheme(j) = "/dev/ttyS" => Number(j) = j - 1
          /\ Scheme(j) = "/dev/ttyACM" =>
               /\ j - 1 \in Tried
               /\ Scheme(j - 1) = "/dev/ttyUSB"
               /\ Number(j - 1) = Number(j)
          /\ Scheme(j) = "/dev/ttyUSB" =>
               /\ Number(j) < UsbCount
               /\ j + 1 <= NumPorts
               /\ Scheme(j + 1) = "/dev/ttyACM"
               /\ IF Scheme(j - 1) = "/dev/ttyS" THEN Number(j) = 0
                  ELSE Scheme(j - 1) = "/dev/ttyACM"
                       /\ Number(j) = Number(j - 1) + 1
     /\ i > NumPorts => Number(NumPorts) = UsbCount - 1

C22_Witness ==
  /\ pc = "d_read"
  /\ i = TtySLast + 4
  /\ Ports[i] = <<"/dev/ttyUSB", 1>>
  /\ Ports[i - 1] = <<"/dev/ttyACM", 0>>
  /\ Ports[i - 2] = <<"/dev/ttyUSB", 0>>

\* The count is the number of cycles started: it is never behind the reads
\* or the records, and a record never carries a count of the future.
C23_State ==
  /\ loop_count >= 0
  /\ emitted <= loop_count
  /\ sampleReads <= 3 * loop_count
  /\ pc \in {"s_temp", "s_raw", "s_sensor", "s_emit"} => loop_count >= 1
  /\ dash # NoRecord => (dash.sample_count >= 1 /\ dash.sample_count <= loop_count)

\* The count changes only at the start of a cycle, by one; a read, failed or
\* not, leaves it alone; a new record carries the count of its cycle, larger
\* than the count of the record before it.
C23_Step ==
  /\ loop_count' # loop_count =>
       (pc = "s_top" /\ pc' = "s_temp" /\ loop_count' = loop_count + 1)
  /\ pc' = "s_temp" => loop_count' = loop_count + 1
  /\ emitted' # emitted =>
       /\ dash'.sample_count = loop_count
       /\ dash # NoRecord => dash'.sample_count > dash.sample_count

\* C23: the cycle counter of the loop is monotonically increasing: it grows
\* by exactly one at the start of every cycle, abandoned cycles included,
\* and never decreases or resets, so the counts carried by successive
\* records are strictly increasing, though not necessarily consecutive.
C23_CounterMonotone == []C23_State /\ [][C23_Step]_vars

C23_Witness ==
  /\ pc = "s_top"
  /\ loop_count = 2
  /\ emitted = 1
  /\ dash.sample_count = 2
  /\ sampleReads \in {4, 5}

\* The value of a hex digit, the word four digits spell, and the two words
\* an eight-digit string spells.
DigitVal(c) == CHOOSE k \in 0..15 : HexDigits[k + 1] = c
WordOfHex(h, k) ==
  DigitVal(h[k]) * 4096 + DigitVal(h[k + 1]) * 256
    + DigitVal(h[k + 2]) * 16 + DigitVal(h[k + 3])
WordsOfHex(h) == <<WordOfHex(h, 1), WordOfHex(h, 5)>>
\* The two 16-bit halves of the pattern of a float.
WordsOfFloat(f) == <<f[1] * 256 + f[2], f[3] * 256 + f[4]>>

\* C24: every record is built from the three reads of its own cycle only:
\* its temperature and its temperature hex string are the words read from
\* 60-61 in that cycle, its raw EC and raw EC hex string the words read from
\* 45-46 in that cycle, its sensor EC the words read from 41-42 in that
\* cycle; nothing left in the hex strings or the buffer by an earlier cycle,
\* complete or abandoned, appears in it.
C24_RecordFromOwnCycle ==
  (pc = "s_top" /\ RecordOfCycle) =>
     /\ Len(cycleLog) = 3
     /\ cycleLog[1].addr = 60 /\ cycleLog[2].addr = 45 /\ cycleLog[3].addr = 41
     /\ \A r \in {dash, csv} :
          /\ Len(r.hex_temp) = 8 /\ Len(r.hex_raw_ec) = 8
          /\ WordsOfFloat(r.temp) = cycleLog[1].data
          /\ WordsOfHex(r.hex_temp) = cycleLog[1].data
          /\ WordsOfFloat(r.raw_ec) = cycleLog[2].data
          /\ WordsOfHex(r.hex_raw_ec) = cycleLog[2].data
          /\ WordsOfFloat(r.sensor_ec) = cycleLog[3].data
          /\ r.smart_ec = calculate_smart_ec(r.raw_ec, r.temp)

\* The record of a second cycle, after a first cycle abandoned at the raw EC
\* read, which left its temperature hex string behind.
C24_Witness ==
  /\ pc = "s_top"
  /\ RecordOfCycle
  /\ loop_count = 2
  /\ sampleReads = 5
  /\ emitted = 1
  /\ cycleLog[1].data = <<49696, 0>>
  /\ cycleLog[2].data = <<16720, 0>>
  /\ dash.hex_raw_ec = <<"4", "1", "5", "0", "0", "0", "0", "0">>

\* The measurement registers: 41-42, 45-46 and 60-61.
MeasurementRegs == {41, 42, 45, 46, 60, 61}
\* An access of width n at addr covers register m.
Covers(e, m) == e.addr <= m /\ m < e.addr + e.n

\* Every write issued so far is a calibration write of register 13, of
\* register 16 or of registers 28-29, no register is written twice, no
\* write covers a measurement register, and discovery has only opened, read
\* and closed.
C25_State ==
  /\ \A j \in DOMAIN Writes :
       /\ <<Writes[j].addr, Writes[j].n>> \in {<<13, 1>>, <<16, 1>>, <<28, 2>>}
       /\ \A m \in MeasurementRegs : ~Covers(Writes[j], m)
       /\ \A k \in DOMAIN Writes : k # j => Writes[k].addr # Writes[j].addr
  /\ \A j \in DOMAIN dlog : dlog[j].ev \in {"open", "read", "close"}
  /\ \A j \in DOMAIN cycleLog : cycleLog[j].addr \in MeasurementRegs
  /\ Writes # <<>> => cal_mode # CAL_MODE_NONE

\* A write is issued only by the raw write of write_integer_register or
\* write_float_register, inside calibration; outside calibration no step
\* adds a register access of calibration.
C25_Step ==
  /\ Writes' # Writes =>
       (pc \in {"wi_write", "wf_write"} /\ Len(Writes') = Len(Writes) + 1)
  /\ Phase(pc) # 4 => calLog' = calLog

\* C25: over the whole run the only register writes are the calibration
\* writes to registers 13, 16 and 28-29, each at most once; discovery, the
\* diagnostic monitor and the acquisition loop only read; no write targets
\* the measurement registers 41-42, 45-46 or 60-61.
C25_OnlyCalibrationWrites == []C25_State /\ [][C25_Step]_vars

C25_Witness ==
  /\ pc = "s_top"
  /\ emitted = 2
  /\ Len(Writes) = 2
  /\ Writes[1].addr = 28 /\ Writes[1].ok
  /\ Writes[2].addr = 13 /\ Writes[2].ok

\* The read-backs of calibration that failed on the transport.
FailedReadBacks == {j \in DOMAIN calLog : calLog[j].op = "read" /\ ~calLog[j].ok}

\* C26: a raw write that went through and whose read-back itself failed is
\* still accepted: the call returns true with nothing verified; in mode 2
\* the write of register 13 is still issued after a coefficient write whose
\* read-back could not be made; and execute_calibration returns true when
\* every raw write went through, whatever became of the read-backs.
C26_UnreadableStillAccepted ==
  /\ \A j \in DOMAIN wres : wres[j].verify = "unreadable" => wres[j].accepted
  /\ \A j \in FailedReadBacks :
       /\ j > 1
       /\ calLog[j - 1].op = "write" /\ calLog[j - 1].ok
       /\ calLog[j - 1].addr = calLog[j].addr
       /\ (pc = "cal_after" /\ j = Len(calLog)) => ret = TRUE
  /\ (cal_mode = CAL_MODE_2 /\ pc \in AfterCalPcs /\ 2 \in FailedReadBacks) =>
       /\ Len(Writes) = 2
       /\ PosOf(2) = 3
       /\ Writes[2].addr = 13 /\ Writes[2].data = <<3>>
  /\ (pc \in AfterCalPcs \ {"cal_done"} /\ FailedReadBacks # {} /\ AllWritesOk) =>
       (ret = TRUE /\ "failed" \notin {msgs[k] : k \in DOMAIN msgs})

C26_Witness ==
  /\ pc = "m_calret"
  /\ cal_mode = CAL_MODE_2
  /\ ret = TRUE
  /\ Len(calLog) = 4
  /\ FailedReadBacks = {2, 4}
  /\ Writes[1].ok /\ Writes[2].ok
  /\ msgs = <<"completed">>

====
